---- MODULE Spec2Model ----
(***************************************************************************)
(* A model of .github/workflows/scripts/gh_cli.py, the wrapper of the      *)
(* GitHub CLI used by the pull request actions of the plugin catalogue:    *)
(* pr_comment, pr_update_or_comment, pr_label and check_contributor, the   *)
(* body file 'reply.md' they share, and the pull request they act on.      *)
(*                                                                         *)
(* Python values are tagged records: S("x") a str, None, I(1) an int,      *)
(* L(<<...>>) a list, T(<<...>>) a tuple, B(TRUE) a bool, D(<<...>>) a     *)
(* dict, F("1.5") a float by its literal.  The strings the                 *)
(* caller passes are TLA+ strings; bytes are sequences of 0..255, and a    *)
(* str decoded from bytes is the sequence of its code points.              *)
(***************************************************************************)
EXTENDS Integers, Sequences, FiniteSets, TLC

\* ------------------------------------------------------------ Python values

S(x) == [t |-> "str", v |-> x]
I(n) == [t |-> "int", v |-> n]
B(b) == [t |-> "bool", v |-> b]
L(xs) == [t |-> "list", v |-> xs]
T(xs) == [t |-> "tuple", v |-> xs]
D(kvs) == [t |-> "dict", v |-> kvs]
F(x) == [t |-> "float", v |-> x]
None == [t |-> "none"]

\* ------------------------------------------------------- characters, bytes

\* The printable ASCII characters 32..95 and 97..126, in order (a TLA+ string
\* cannot hold character 96).
AsciiLow == " !\"#$%&'()*+,-./0123456789:;<=>?@ABCDEFGHIJKLMNOPQRSTUVWXYZ[\\]^_"
AsciiHigh == "abcdefghijklmnopqrstuvwxyz{|}~"

\* ord(c) of one character of the strings the model writes.
Ord(c) ==
  IF c = "\n" THEN 10
  ELSE IF \E i \in 1..Len(AsciiLow) : SubSeq(AsciiLow, i, i) = c
       THEN 31 + (CHOOSE i \in 1..Len(AsciiLow) : SubSeq(AsciiLow, i, i) = c)
       ELSE 96 + (CHOOSE i \in 1..Len(AsciiHigh) : SubSeq(AsciiHigh, i, i) = c)

\* The code points of a str written as a TLA+ string.
CodePoints(s) == [i \in 1..Len(s) |-> Ord(SubSeq(s, i, i))]

\* str.encode('utf-8') of a str written as a TLA+ string (all below 128).
Utf8Encode(s) == CodePoints(s)

IsCont(b) == b >= 128 /\ b <= 191

\* The length of the UTF-8 sequence that starts at bs[i], 0 when bs[i..] starts
\* no well-formed sequence (what makes bytes.decode('utf-8') raise).
Utf8SeqLen(bs, i) ==
  LET b == bs[i]
      n == Len(bs)
      c1 == IF i + 1 <= n THEN bs[i + 1] ELSE 0
      c2 == IF i + 2 <= n THEN bs[i + 2] ELSE 0
      c3 == IF i + 3 <= n THEN bs[i + 3] ELSE 0
  IN  CASE b < 128 -> 1
        [] b >= 194 /\ b <= 223 -> IF IsCont(c1) THEN 2 ELSE 0
        [] b = 224 -> IF c1 >= 160 /\ c1 <= 191 /\ IsCont(c2) THEN 3 ELSE 0
        [] b = 237 -> IF c1 >= 128 /\ c1 <= 159 /\ IsCont(c2) THEN 3 ELSE 0
        [] b >= 225 /\ b <= 239 /\ b # 237 -> IF IsCont(c1) /\ IsCont(c2) THEN 3 ELSE 0
        [] b = 240 -> IF c1 >= 144 /\ c1 <= 191 /\ IsCont(c2) /\ IsCont(c3) THEN 4 ELSE 0
        [] b >= 241 /\ b <= 243 -> IF IsCont(c1) /\ IsCont(c2) /\ IsCont(c3) THEN 4 ELSE 0
        [] b = 244 -> IF c1 >= 128 /\ c1 <= 143 /\ IsCont(c2) /\ IsCont(c3) THEN 4 ELSE 0
        [] OTHER -> 0

\* The code point of the well-formed sequence of length k at bs[i].
Utf8CodePoint(bs, i, k) ==
  CASE k = 1 -> bs[i]
    [] k = 2 -> (bs[i] - 192) * 64 + (bs[i + 1] - 128)
    [] k = 3 -> (bs[i] - 224) * 4096 + (bs[i + 1] - 128) * 64 + (bs[i + 2] - 128)
    [] OTHER -> (bs[i] - 240) * 262144 + (bs[i + 1] - 128) * 4096
                + (bs[i + 2] - 128) * 64 + (bs[i + 3] - 128)

\* The code points of the sequences that start in bs[lo..hi], in order (a
\* sequence starts at every byte that is no continuation byte).
RECURSIVE Utf8Range(_, _, _)
Utf8Range(bs, lo, hi) ==
  IF lo > hi THEN <<>>
  ELSE IF lo = hi
       THEN IF IsCont(bs[lo]) THEN <<>>
            ELSE <<Utf8CodePoint(bs, lo, Utf8SeqLen(bs, lo))>>
  ELSE LET mid == (lo + hi) \div 2
       IN  Utf8Range(bs, lo, mid) \o Utf8Range(bs, mid + 1, hi)

\* bytes.decode('utf-8'): ok and the code points, or not ok (UnicodeDecodeError:
\* a byte that starts no well-formed sequence, or a continuation byte outside one).
Utf8Decode(bs) ==
  LET starts == {i \in 1..Len(bs) : ~IsCont(bs[i])}
      ok == /\ \A i \in starts : Utf8SeqLen(bs, i) > 0
            /\ \A j \in (1..Len(bs)) \ starts :
                 \E i \in starts : i < j /\ j < i + Utf8SeqLen(bs, i)
  IN  [ok |-> ok, v |-> IF ok THEN Utf8Range(bs, 1, Len(bs)) ELSE <<>>]

\* A variant of StartsWith that compares the whole output with the line 'true\n'.
StartsWith_WholeLine(s, prefix) == s = prefix \o <<10>>

\* str.startswith(prefix) on code points.
StartsWith(s, prefix) ==
  Len(s) >= Len(prefix) /\ SubSeq(s, 1, Len(prefix)) = prefix

\* Whether sub occurs in s (jq's contains on strings), on sequences.
Contains(s, sub) ==
  \E i \in 0..(Len(s) - Len(sub)) : SubSeq(s, i + 1, i + Len(sub)) = sub

\* ---------------------------------------------------------------- json.loads

\* A parse step's result: ok, the value, and the index after it.
Parsed(v, i) == [ok |-> TRUE, v |-> v, i |-> i]
ParseError == [ok |-> FALSE, v |-> None, i |-> 0]

IsWs(c) == c \in {32, 9, 10, 13}
IsDigit(c) == c >= 48 /\ c <= 57
IsHex(c) == IsDigit(c) \/ (c >= 65 /\ c <= 70) \/ (c >= 97 /\ c <= 102)
HexVal(c) == IF IsDigit(c) THEN c - 48 ELSE IF c >= 97 THEN c - 87 ELSE c - 55

RECURSIVE SkipWs(_, _)
SkipWs(s, i) == IF i <= Len(s) /\ IsWs(s[i]) THEN SkipWs(s, i + 1) ELSE i

\* The index of the first character from s[i] on that is no digit.
SkipDigits(s, i) ==
  IF \E j \in i..Len(s) : ~IsDigit(s[j])
  THEN CHOOSE j \in i..Len(s) : ~IsDigit(s[j]) /\ \A k \in i..(j - 1) : IsDigit(s[k])
  ELSE IF i > Len(s) THEN i ELSE Len(s) + 1

RECURSIVE DigitsValue(_, _, _)
DigitsValue(s, i, j) ==
  IF j < i THEN 0 ELSE DigitsValue(s, i, j - 1) * 10 + (s[j] - 48)

\* Whether the code points of the TLA+ string lit stand at s[i..].
LitAt(s, i, lit) ==
  i + Len(lit) - 1 <= Len(s) /\ SubSeq(s, i, i + Len(lit) - 1) = CodePoints(lit)

\* The most digits int() takes from a str (sys.int_info.default_max_str_digits);
\* a longer integer literal makes json.loads raise ValueError.
MaxStrDigits == 4300

\* A number at s[i]: -?(0|[1-9][0-9]*)(\.[0-9]+)?([eE][-+]?[0-9]+)?, an int
\* without fraction and exponent, else a float (kept as its text).
ParseNumber(s, i) ==
  LET n == Len(s)
      neg == i <= n /\ s[i] = 45
      d0 == IF neg THEN i + 1 ELSE i
      d1 == IF d0 <= n /\ s[d0] = 48 THEN d0 + 1
            ELSE IF d0 <= n /\ IsDigit(s[d0]) THEN SkipDigits(s, d0) ELSE d0
      f1 == IF d1 + 1 <= n /\ s[d1] = 46 /\ IsDigit(s[d1 + 1])
            THEN SkipDigits(s, d1 + 1) ELSE d1
      e0 == IF f1 <= n /\ s[f1] \in {69, 101}
            THEN (IF f1 + 1 <= n /\ s[f1 + 1] \in {43, 45} THEN f1 + 2 ELSE f1 + 1)
            ELSE f1
      e1 == IF e0 > f1 /\ e0 <= n /\ IsDigit(s[e0]) THEN SkipDigits(s, e0) ELSE f1
  IN  IF d1 = d0 THEN ParseError
      ELSE IF e1 = d1
           THEN IF d1 - d0 > MaxStrDigits THEN ParseError
                ELSE Parsed(I((IF neg THEN -1 ELSE 1) * DigitsValue(s, d0, d1 - 1)), d1)
           ELSE Parsed(F(SubSeq(s, i, e1 - 1)), e1)

\* The digits d1 d2 ... of 2^-1075 = d1.d2... * 10^-324, half the least positive
\* float: a literal of at most that magnitude is the float 0.0 (round to even).
HalfLeastFloat ==
  <<
     2, 4, 7, 0, 3, 2, 8, 2, 2, 9, 2, 0, 6, 2, 3, 2, 7, 2, 0, 8, 8, 2, 8, 4, 3, 9, 6, 4, 3, 4, 1, 1,
     0, 6, 8, 6, 1, 8, 2, 5, 2, 9, 9, 0, 1, 3, 0, 7, 1, 6, 2, 3, 8, 2, 2, 1, 2, 7, 9, 2, 8, 4, 1, 2,
     5, 0, 3, 3, 7, 7, 5, 3, 6, 3, 5, 1, 0, 4, 3, 7, 5, 9, 3, 2, 6, 4, 9, 9, 1, 8, 1, 8, 0, 8, 1, 7,
     9, 9, 6, 1, 8, 9, 8, 9, 8, 2, 8, 2, 3, 4, 7, 7, 2, 2, 8, 5, 8, 8, 6, 5, 4, 6, 3, 3, 2, 8, 3, 5,
     5, 1, 7, 7, 9, 6, 9, 8, 9, 8, 1, 9, 9, 3, 8, 7, 3, 9, 8, 0, 0, 5, 3, 9, 0, 9, 3, 9, 0, 6, 3, 1,
     5, 0, 3, 5, 6, 5, 9, 5, 1, 5, 5, 7, 0, 2, 2, 6, 3, 9, 2, 2, 9, 0, 8, 5, 8, 3, 9, 2, 4, 4, 9, 1,
     0, 5, 1, 8, 4, 4, 3, 5, 9, 3, 1, 8, 0, 2, 8, 4, 9, 9, 3, 6, 5, 3, 6, 1, 5, 2, 5, 0, 0, 3, 1, 9,
     3, 7, 0, 4, 5, 7, 6, 7, 8, 2, 4, 9, 2, 1, 9, 3, 6, 5, 6, 2, 3, 6, 6, 9, 8, 6, 3, 6, 5, 8, 4, 8,
     0, 7, 5, 7, 0, 0, 1, 5, 8, 5, 7, 6, 9, 2, 6, 9, 9, 0, 3, 7, 0, 6, 3, 1, 1, 9, 2, 8, 2, 7, 9, 5,
     5, 8, 5, 5, 1, 3, 3, 2, 9, 2, 7, 8, 3, 4, 3, 3, 8, 4, 0, 9, 3, 5, 1, 9, 7, 8, 0, 1, 5, 5, 3, 1,
     2, 4, 6, 5, 9, 7, 2, 6, 3, 5, 7, 9, 5, 7, 4, 6, 2, 2, 7, 6, 6, 4, 6, 5, 2, 7, 2, 8, 2, 7, 2, 2,
     0, 0, 5, 6, 3, 7, 4, 0, 0, 6, 4, 8, 5, 4, 9, 9, 9, 7, 7, 0, 9, 6, 5, 9, 9, 4, 7, 0, 4, 5, 4, 0,
     2, 0, 8, 2, 8, 1, 6, 6, 2, 2, 6, 2, 3, 7, 8, 5, 7, 3, 9, 3, 4, 5, 0, 7, 3, 6, 3, 3, 9, 0, 0, 7,
     9, 6, 7, 7, 6, 1, 9, 3, 0, 5, 7, 7, 5, 0, 6, 7, 4, 0, 1, 7, 6, 3, 2, 4, 6, 7, 3, 6, 0, 0, 9, 6,
     8, 9, 5, 1, 3, 4, 0, 5, 3, 5, 5, 3, 7, 4, 5, 8, 5, 1, 6, 6, 6, 1, 1, 3, 4, 2, 2, 3, 7, 6, 6, 6,
     7, 8, 6, 0, 4, 1, 6, 2, 1, 5, 9, 6, 8, 0, 4, 6, 1, 9, 1, 4, 4, 6, 7, 2, 9, 1, 8, 4, 0, 3, 0, 0,
     5, 3, 0, 0, 5, 7, 5, 3, 0, 8, 4, 9, 0, 4, 8, 7, 6, 5, 3, 9, 1, 7, 1, 1, 3, 8, 6, 5, 9, 1, 6, 4,
     6, 2, 3, 9, 5, 2, 4, 9, 1, 2, 6, 2, 3, 6, 5, 3, 8, 8, 1, 8, 7, 9, 6, 3, 6, 2, 3, 9, 3, 7, 3, 2,
     8, 0, 4, 2, 3, 8, 9, 1, 0, 1, 8, 6, 7, 2, 3, 4, 8, 4, 9, 7, 6, 6, 8, 2, 3, 5, 0, 8, 9, 8, 6, 3,
     3, 8, 8, 5, 8, 7, 9, 2, 5, 6, 2, 8, 3, 0, 2, 7, 5, 5, 9, 9, 5, 6, 5, 7, 5, 2, 4, 4, 5, 5, 5, 0,
     7, 2, 5, 5, 1, 8, 9, 3, 1, 3, 6, 9, 0, 8, 3, 6, 2, 5, 4, 7, 7, 9, 1, 8, 6, 9, 4, 8, 6, 6, 7, 9,
     9, 4, 9, 6, 8, 3, 2, 4, 0, 4, 9, 7, 0, 5, 8, 2, 1, 0, 2, 8, 5, 1, 3, 1, 8, 5, 4, 5, 1, 3, 9, 6,
     2, 1, 3, 8, 3, 7, 7, 2, 2, 8, 2, 6, 1, 4, 5, 4, 3, 7, 6, 9, 3, 4, 1, 2, 5, 3, 2, 0, 9, 8, 5, 9,
     1, 3, 2, 7, 6, 6, 7, 2, 3, 6, 3, 2, 8, 1, 2, 5
  >>

\* The index of the first character from s[i] on that is no 0.
SkipZeros(s, i) ==
  IF \E j \in i..Len(s) : s[j] # 48
  THEN CHOOSE j \in i..Len(s) : s[j] # 48 /\ \A k \in i..(j - 1) : s[k] = 48
  ELSE IF i > Len(s) THEN i ELSE Len(s) + 1

\* The index of the first digit of m that is not 0; 0 when there is none.
FirstNonZero(m) ==
  IF \E i \in 1..Len(m) : m[i] # 48
  THEN CHOOSE i \in 1..Len(m) : m[i] # 48 /\ \A j \in 1..(i - 1) : m[j] = 48
  ELSE 0

\* The i-th digit of the digit characters m, and of HalfLeastFloat; 0 past the end.
DigitAt(m, i) == IF i <= Len(m) THEN m[i] - 48 ELSE 0
HalfLeastAt(i) == IF i <= Len(HalfLeastFloat) THEN HalfLeastFloat[i] ELSE 0

\* Whether the digits m[k..], read as d.ddd, are at most those of HalfLeastFloat.
AtMostHalfLeast(m, k) ==
  \A j \in 1..(Len(m) + Len(HalfLeastFloat)) :
    (/\ DigitAt(m, k + j - 1) # HalfLeastAt(j)
     /\ \A i \in 1..(j - 1) : DigitAt(m, k + i - 1) = HalfLeastAt(i))
      => DigitAt(m, k + j - 1) < HalfLeastAt(j)

\* The digits from x[z] to the end of x as a number; 10^9 stands for all that
\* have more than nine digits.
ExponentMagnitude(x, z) ==
  IF Len(x) - z + 1 > 9 THEN 1000000000 ELSE DigitsValue(x, z, Len(x))

\* The exponent of the float literal x whose e or E, if any, is x[f1].
FloatExponent(x, f1) ==
  IF f1 > Len(x) THEN 0
  ELSE IF x[f1 + 1] = 45 THEN 0 - ExponentMagnitude(x, SkipZeros(x, f1 + 2))
  ELSE IF x[f1 + 1] = 43 THEN ExponentMagnitude(x, SkipZeros(x, f1 + 2))
  ELSE ExponentMagnitude(x, SkipZeros(x, f1 + 1))

\* Whether the digits m, the point after the first `point` of them, times ten
\* to the power e, make the float 0.0; k is FirstNonZero(m).
FloatIsZeroFrom(m, k, point, e) ==
  \/ k = 0
  \/ point + e - k < -324
  \/ point + e - k = -324 /\ AtMostHalfLeast(m, k)

\* The same for the literal x: its integer digits are x[d0..d1-1], its fraction
\* (if x[d1] is the point) ends before x[f1].
FloatIsZeroAt(x, d0, d1, f1) ==
  FloatIsZeroFrom(SubSeq(x, d0, d1 - 1) \o SubSeq(x, d1 + 1, f1 - 1),
                  FirstNonZero(SubSeq(x, d0, d1 - 1) \o SubSeq(x, d1 + 1, f1 - 1)),
                  d1 - d0, FloatExponent(x, f1))

\* The index after the fraction that may start at x[d1].
FractionEnd(x, d1) == IF d1 <= Len(x) /\ x[d1] = 46 THEN SkipDigits(x, d1 + 1) ELSE d1

\* Whether the float written x (the code points of its literal) is 0.0 or -0.0;
\* nan and the infinities are not.
FloatIsZero(x) ==
  IF Len(x) >= 1 /\ x[1] = 45
  THEN Len(x) >= 2 /\ IsDigit(x[2])
       /\ FloatIsZeroAt(x, 2, SkipDigits(x, 2), FractionEnd(x, SkipDigits(x, 2)))
  ELSE Len(x) >= 1 /\ IsDigit(x[1])
       /\ FloatIsZeroAt(x, 1, SkipDigits(x, 1), FractionEnd(x, SkipDigits(x, 1)))

\* bool(x), as `if x:` decides it.
Truthy(x) ==
  CASE x.t = "none" -> FALSE
    [] x.t = "bool" -> x.v
    [] x.t = "int" -> x.v # 0
    [] x.t = "float" -> ~FloatIsZero(x.v)
    [] x.t = "str" -> Len(x.v) # 0
    [] x.t = "list" -> Len(x.v) # 0
    [] x.t = "tuple" -> Len(x.v) # 0
    [] x.t = "dict" -> Len(x.v) # 0
    [] OTHER -> TRUE


\* The character an escape letter stands for, 0 when it is no escape.
Unescape(c) ==
  CASE c = 34 -> 34 [] c = 92 -> 92 [] c = 47 -> 47 [] c = 98 -> 8 [] c = 102 -> 12
    [] c = 110 -> 10 [] c = 114 -> 13 [] c = 116 -> 9 [] OTHER -> 0

Hex4Ok(s, i) == i + 3 <= Len(s) /\ \A k \in 0..3 : IsHex(s[i + k])
Hex4(s, i) == HexVal(s[i]) * 4096 + HexVal(s[i + 1]) * 256 + HexVal(s[i + 2]) * 16 + HexVal(s[i + 3])

\* The rest of a string whose opening quote is before s[i] (strict: a control
\* character, a bad escape or a missing closing quote is an error).
RECURSIVE ParseStringBody(_, _)
ParseStringBody(s, i) ==
  IF i > Len(s) THEN ParseError
  ELSE IF s[i] = 34 THEN Parsed(<<>>, i + 1)
  ELSE IF s[i] < 32 THEN ParseError
  ELSE IF s[i] # 92
       THEN LET r == ParseStringBody(s, i + 1)
            IN  IF r.ok THEN Parsed(<<s[i]>> \o r.v, r.i) ELSE ParseError
  ELSE IF i + 1 > Len(s) THEN ParseError
  ELSE IF s[i + 1] = 117
       THEN IF ~Hex4Ok(s, i + 2) THEN ParseError
            ELSE LET u == Hex4(s, i + 2)
                     pair == u >= 55296 /\ u <= 56319 /\ LitAt(s, i + 6, "\\u")
                             /\ Hex4Ok(s, i + 8)
                             /\ Hex4(s, i + 8) >= 56320 /\ Hex4(s, i + 8) <= 57343
                     c == IF pair
                          THEN 65536 + (u - 55296) * 1024 + (Hex4(s, i + 8) - 56320)
                          ELSE u
                     r == ParseStringBody(s, IF pair THEN i + 12 ELSE i + 6)
                 IN  IF r.ok THEN Parsed(<<c>> \o r.v, r.i) ELSE ParseError
  ELSE IF Unescape(s[i + 1]) = 0 THEN ParseError
  ELSE LET r == ParseStringBody(s, i + 2)
       IN  IF r.ok THEN Parsed(<<Unescape(s[i + 1])>> \o r.v, r.i) ELSE ParseError

\* dict[key] = value: a repeated key keeps its place and takes the last value.
DictSet(kvs, k, v) ==
  IF \E j \in 1..Len(kvs) : kvs[j][1] = k
  THEN [j \in 1..Len(kvs) |-> IF kvs[j][1] = k THEN <<k, v>> ELSE kvs[j]]
  ELSE Append(kvs, <<k, v>>)

RECURSIVE ParseValue(_, _, _)
RECURSIVE ParseMembers(_, _, _, _)
RECURSIVE ParseElements(_, _, _, _)

\* The members of an object from the key at s[i] (its opening quote) on; their
\* values may nest d deep.
ParseMembers(s, i, kvs, d) ==
  IF ~(i <= Len(s) /\ s[i] = 34) THEN ParseError
  ELSE LET k == ParseStringBody(s, i + 1)
       IN  IF ~k.ok THEN ParseError
           ELSE LET c == SkipWs(s, k.i)
                IN  IF ~(c <= Len(s) /\ s[c] = 58) THEN ParseError
                    ELSE LET v == ParseValue(s, SkipWs(s, c + 1), d)
                         IN  IF ~v.ok THEN ParseError
                             ELSE LET e == SkipWs(s, v.i)
                                      kv == DictSet(kvs, k.v, v.v)
                                  IN  IF e > Len(s) THEN ParseError
                                      ELSE IF s[e] = 125 THEN Parsed(D(kv), e + 1)
                                      ELSE IF s[e] = 44
                                           THEN ParseMembers(s, SkipWs(s, e + 1), kv, d)
                                      ELSE ParseError

\* The elements of an array from the value at s[i] on.
ParseElements(s, i, xs, d) ==
  LET v == ParseValue(s, i, d)
  IN  IF ~v.ok THEN ParseError
      ELSE LET e == SkipWs(s, v.i)
           IN  IF e > Len(s) THEN ParseError
               ELSE IF s[e] = 93 THEN Parsed(L(Append(xs, v.v)), e + 1)
               ELSE IF s[e] = 44 THEN ParseElements(s, SkipWs(s, e + 1), Append(xs, v.v), d)
               ELSE ParseError

\* scan_once: the JSON value that starts at s[i], in which arrays and objects
\* nest at most d deep: entering one more is a RecursionError.
ParseValue(s, i, d) ==
  IF i > Len(s) THEN ParseError
  ELSE CASE s[i] = 34 ->
              LET r == ParseStringBody(s, i + 1)
              IN  IF r.ok THEN Parsed(S(r.v), r.i) ELSE ParseError
         [] s[i] = 123 ->
              LET j == SkipWs(s, i + 1)
              IN  IF d = 0 THEN ParseError
                  ELSE IF j <= Len(s) /\ s[j] = 125 THEN Parsed(D(<<>>), j + 1)
                  ELSE ParseMembers(s, j, <<>>, d - 1)
         [] s[i] = 91 ->
              LET j == SkipWs(s, i + 1)
              IN  IF d = 0 THEN ParseError
                  ELSE IF j <= Len(s) /\ s[j] = 93 THEN Parsed(L(<<>>), j + 1)
                  ELSE ParseElements(s, j, <<>>, d - 1)
         [] LitAt(s, i, "null") -> Parsed(None, i + 4)
         [] LitAt(s, i, "true") -> Parsed(B(TRUE), i + 4)
         [] LitAt(s, i, "false") -> Parsed(B(FALSE), i + 5)
         [] LitAt(s, i, "NaN") -> Parsed(F(CodePoints("NaN")), i + 3)
         [] LitAt(s, i, "Infinity") -> Parsed(F(CodePoints("Infinity")), i + 8)
         [] LitAt(s, i, "-Infinity") -> Parsed(F(CodePoints("-Infinity")), i + 9)
         [] OTHER -> ParseNumber(s, i)

\* The interpreter's recursion limit (sys.getrecursionlimit()).
RecursionLimit == 1000

\* How deep arrays and objects may nest for json.loads called under `frames`
\* frames: loads, decode, raw_decode and the scanner take four levels more.
JsonNesting(frames) == RecursionLimit - frames - 4

\* json.loads(s) of a str s, called with `frames` frames on the stack: ok and
\* the value, or not ok (JSONDecodeError; RecursionError for too deep a nesting;
\* ValueError for too long an integer).
JsonLoadsUnder(s, frames) ==
  IF JsonNesting(frames) < 0 THEN [ok |-> FALSE, v |-> None]
  ELSE LET r == ParseValue(s, SkipWs(s, 1), JsonNesting(frames))
       IN  IF r.ok /\ SkipWs(s, r.i) = Len(s) + 1 THEN [ok |-> TRUE, v |-> r.v]
           ELSE [ok |-> FALSE, v |-> None]

\* obj[key] for a str key: the value, or not ok (KeyError on a dict without
\* the key, TypeError on None, a list, a str or a number).
GetItem(obj, key) ==
  IF obj.t = "dict" /\ \E j \in 1..Len(obj.v) : obj.v[j][1] = CodePoints(key)
  THEN [ok |-> TRUE,
        v |-> obj.v[CHOOSE j \in 1..Len(obj.v) : obj.v[j][1] = CodePoints(key)][2]]
  ELSE [ok |-> FALSE, v |-> None]

\* str.upper(), character by character, as the Unicode database of the
\* interpreter (14.0) has it.  The simple mappings, in runs: from the first to the
\* last code point of a run, every step-th code point maps to itself plus delta.
UpperRuns ==
  <<
     <<97, 122, 1, -32>>, <<181, 181, 1, 743>>, <<224, 246, 1, -32>>, <<248, 254, 1, -32>>, <<255, 255, 1, 121>>,
     <<257, 303, 2, -1>>, <<305, 305, 1, -232>>, <<307, 311, 2, -1>>, <<314, 328, 2, -1>>, <<331, 375, 2, -1>>,
     <<378, 382, 2, -1>>, <<383, 383, 1, -300>>, <<384, 384, 1, 195>>, <<387, 389, 2, -1>>, <<392, 392, 1, -1>>,
     <<396, 396, 1, -1>>, <<402, 402, 1, -1>>, <<405, 405, 1, 97>>, <<409, 409, 1, -1>>, <<410, 410, 1, 163>>,
     <<414, 414, 1, 130>>, <<417, 421, 2, -1>>, <<424, 424, 1, -1>>, <<429, 429, 1, -1>>, <<432, 432, 1, -1>>,
     <<436, 438, 2, -1>>, <<441, 441, 1, -1>>, <<445, 445, 1, -1>>, <<447, 447, 1, 56>>, <<453, 453, 1, -1>>,
     <<454, 454, 1, -2>>, <<456, 456, 1, -1>>, <<457, 457, 1, -2>>, <<459, 459, 1, -1>>, <<460, 460, 1, -2>>,
     <<462, 476, 2, -1>>, <<477, 477, 1, -79>>, <<479, 495, 2, -1>>, <<498, 498, 1, -1>>, <<499, 499, 1, -2>>,
     <<501, 501, 1, -1>>, <<505, 543, 2, -1>>, <<547, 563, 2, -1>>, <<572, 572, 1, -1>>, <<575, 576, 1, 10815>>,
     <<578, 578, 1, -1>>, <<583, 591, 2, -1>>, <<592, 592, 1, 10783>>, <<593, 593, 1, 10780>>, <<594, 594, 1, 10782>>,
     <<595, 595, 1, -210>>, <<596, 596, 1, -206>>, <<598, 599, 1, -205>>, <<601, 601, 1, -202>>, <<603, 603, 1, -203>>,
     <<604, 604, 1, 42319>>, <<608, 608, 1, -205>>, <<609, 609, 1, 42315>>, <<611, 611, 1, -207>>, <<613, 613, 1, 42280>>,
     <<614, 614, 1, 42308>>, <<616, 616, 1, -209>>, <<617, 617, 1, -211>>, <<618, 618, 1, 42308>>, <<619, 619, 1, 10743>>,
     <<620, 620, 1, 42305>>, <<623, 623, 1, -211>>, <<625, 625, 1, 10749>>, <<626, 626, 1, -213>>, <<629, 629, 1, -214>>,
     <<637, 637, 1, 10727>>, <<640, 640, 1, -218>>, <<642, 642, 1, 42307>>, <<643, 643, 1, -218>>, <<647, 647, 1, 42282>>,
     <<648, 648, 1, -218>>, <<649, 649, 1, -69>>, <<650, 651, 1, -217>>, <<652, 652, 1, -71>>, <<658, 658, 1, -219>>,
     <<669, 669, 1, 42261>>, <<670, 670, 1, 42258>>, <<837, 837, 1, 84>>, <<881, 883, 2, -1>>, <<887, 887, 1, -1>>,
     <<891, 893, 1, 130>>, <<940, 940, 1, -38>>, <<941, 943, 1, -37>>, <<945, 961, 1, -32>>, <<962, 962, 1, -31>>,
     <<963, 971, 1, -32>>, <<972, 972, 1, -64>>, <<973, 974, 1, -63>>, <<976, 976, 1, -62>>, <<977, 977, 1, -57>>,
     <<981, 981, 1, -47>>, <<982, 982, 1, -54>>, <<983, 983, 1, -8>>, <<985, 1007, 2, -1>>, <<1008, 1008, 1, -86>>,
     <<1009, 1009, 1, -80>>, <<1010, 1010, 1, 7>>, <<1011, 1011, 1, -116>>, <<1013, 1013, 1, -96>>, <<1016, 1016, 1, -1>>,
     <<1019, 1019, 1, -1>>, <<1072, 1103, 1, -32>>, <<1104, 1119, 1, -80>>, <<1121, 1153, 2, -1>>, <<1163, 1215, 2, -1>>,
     <<1218, 1230, 2, -1>>, <<1231, 1231, 1, -15>>, <<1233, 1327, 2, -1>>, <<1377, 1414, 1, -48>>, <<4304, 4346, 1, 3008>>,
     <<4349, 4351, 1, 3008>>, <<5112, 5117, 1, -8>>, <<7296, 7296, 1, -6254>>, <<7297, 7297, 1, -6253>>, <<7298, 7298, 1, -6244>>,
     <<7299, 7300, 1, -6242>>, <<7301, 7301, 1, -6243>>, <<7302, 7302, 1, -6236>>, <<7303, 7303, 1, -6181>>, <<7304, 7304, 1, 35266>>,
     <<7545, 7545, 1, 35332>>, <<7549, 7549, 1, 3814>>, <<7566, 7566, 1, 35384>>, <<7681, 7829, 2, -1>>, <<7835, 7835, 1, -59>>,
     <<7841, 7935, 2, -1>>, <<7936, 7943, 1, 8>>, <<7952, 7957, 1, 8>>, <<7968, 7975, 1, 8>>, <<7984, 7991, 1, 8>>,
     <<8000, 8005, 1, 8>>, <<8017, 8023, 2, 8>>, <<8032, 8039, 1, 8>>, <<8048, 8049, 1, 74>>, <<8050, 8053, 1, 86>>,
     <<8054, 8055, 1, 100>>, <<8056, 8057, 1, 128>>, <<8058, 8059, 1, 112>>, <<8060, 8061, 1, 126>>, <<8112, 8113, 1, 8>>,
     <<8126, 8126, 1, -7205>>, <<8144, 8145, 1, 8>>, <<8160, 8161, 1, 8>>, <<8165, 8165, 1, 7>>, <<8526, 8526, 1, -28>>,
     <<8560, 8575, 1, -16>>, <<8580, 8580, 1, -1>>, <<9424, 9449, 1, -26>>, <<11312, 11359, 1, -48>>, <<11361, 11361, 1, -1>>,
     <<11365, 11365, 1, -10795>>, <<11366, 11366, 1, -10792>>, <<11368, 11372, 2, -1>>, <<11379, 11379, 1, -1>>, <<11382, 11382, 1, -1>>,
     <<11393, 11491, 2, -1>>, <<11500, 11502, 2, -1>>, <<11507, 11507, 1, -1>>, <<11520, 11557, 1, -7264>>, <<11559, 11559, 1, -7264>>,
     <<11565, 11565, 1, -7264>>, <<42561, 42605, 2, -1>>, <<42625, 42651, 2, -1>>, <<42787, 42799, 2, -1>>, <<42803, 42863, 2, -1>>,
     <<42874, 42876, 2, -1>>, <<42879, 42887, 2, -1>>, <<42892, 42892, 1, -1>>, <<42897, 42899, 2, -1>>, <<42900, 42900, 1, 48>>,
     <<42903, 42921, 2, -1>>, <<42933, 42947, 2, -1>>, <<42952, 42954, 2, -1>>, <<42961, 42961, 1, -1>>, <<42967, 42969, 2, -1>>,
     <<42998, 42998, 1, -1>>, <<43859, 43859, 1, -928>>, <<43888, 43967, 1, -38864>>, <<65345, 65370, 1, -32>>, <<66600, 66639, 1, -40>>,
     <<66776, 66811, 1, -40>>, <<66967, 66977, 1, -39>>, <<66979, 66993, 1, -39>>, <<66995, 67001, 1, -39>>, <<67003, 67004, 1, -39>>,
     <<68800, 68850, 1, -64>>, <<71872, 71903, 1, -32>>, <<93792, 93823, 1, -32>>, <<125218, 125251, 1, -34>>
  >>

\* The code points whose upper case is more than one character.
UpperFull ==
  <<
     <<223, <<83, 83>>>>, <<329, <<700, 78>>>>, <<496, <<74, 780>>>>, <<912, <<921, 776, 769>>>>,
     <<944, <<933, 776, 769>>>>, <<1415, <<1333, 1362>>>>, <<7830, <<72, 817>>>>, <<7831, <<84, 776>>>>,
     <<7832, <<87, 778>>>>, <<7833, <<89, 778>>>>, <<7834, <<65, 702>>>>, <<8016, <<933, 787>>>>,
     <<8018, <<933, 787, 768>>>>, <<8020, <<933, 787, 769>>>>, <<8022, <<933, 787, 834>>>>, <<8064, <<7944, 921>>>>,
     <<8065, <<7945, 921>>>>, <<8066, <<7946, 921>>>>, <<8067, <<7947, 921>>>>, <<8068, <<7948, 921>>>>,
     <<8069, <<7949, 921>>>>, <<8070, <<7950, 921>>>>, <<8071, <<7951, 921>>>>, <<8072, <<7944, 921>>>>,
     <<8073, <<7945, 921>>>>, <<8074, <<7946, 921>>>>, <<8075, <<7947, 921>>>>, <<8076, <<7948, 921>>>>,
     <<8077, <<7949, 921>>>>, <<8078, <<7950, 921>>>>, <<8079, <<7951, 921>>>>, <<8080, <<7976, 921>>>>,
     <<8081, <<7977, 921>>>>, <<8082, <<7978, 921>>>>, <<8083, <<7979, 921>>>>, <<8084, <<7980, 921>>>>,
     <<8085, <<7981, 921>>>>, <<8086, <<7982, 921>>>>, <<8087, <<7983, 921>>>>, <<8088, <<7976, 921>>>>,
     <<8089, <<7977, 921>>>>, <<8090, <<7978, 921>>>>, <<8091, <<7979, 921>>>>, <<8092, <<7980, 921>>>>,
     <<8093, <<7981, 921>>>>, <<8094, <<7982, 921>>>>, <<8095, <<7983, 921>>>>, <<8096, <<8040, 921>>>>,
     <<8097, <<8041, 921>>>>, <<8098, <<8042, 921>>>>, <<8099, <<8043, 921>>>>, <<8100, <<8044, 921>>>>,
     <<8101, <<8045, 921>>>>, <<8102, <<8046, 921>>>>, <<8103, <<8047, 921>>>>, <<8104, <<8040, 921>>>>,
     <<8105, <<8041, 921>>>>, <<8106, <<8042, 921>>>>, <<8107, <<8043, 921>>>>, <<8108, <<8044, 921>>>>,
     <<8109, <<8045, 921>>>>, <<8110, <<8046, 921>>>>, <<8111, <<8047, 921>>>>, <<8114, <<8122, 921>>>>,
     <<8115, <<913, 921>>>>, <<8116, <<902, 921>>>>, <<8118, <<913, 834>>>>, <<8119, <<913, 834, 921>>>>,
     <<8124, <<913, 921>>>>, <<8130, <<8138, 921>>>>, <<8131, <<919, 921>>>>, <<8132, <<905, 921>>>>,
     <<8134, <<919, 834>>>>, <<8135, <<919, 834, 921>>>>, <<8140, <<919, 921>>>>, <<8146, <<921, 776, 768>>>>,
     <<8147, <<921, 776, 769>>>>, <<8150, <<921, 834>>>>, <<8151, <<921, 776, 834>>>>, <<8162, <<933, 776, 768>>>>,
     <<8163, <<933, 776, 769>>>>, <<8164, <<929, 787>>>>, <<8166, <<933, 834>>>>, <<8167, <<933, 776, 834>>>>,
     <<8178, <<8186, 921>>>>, <<8179, <<937, 921>>>>, <<8180, <<911, 921>>>>, <<8182, <<937, 834>>>>,
     <<8183, <<937, 834, 921>>>>, <<8188, <<937, 921>>>>, <<64256, <<70, 70>>>>, <<64257, <<70, 73>>>>,
     <<64258, <<70, 76>>>>, <<64259, <<70, 70, 73>>>>, <<64260, <<70, 70, 76>>>>, <<64261, <<83, 84>>>>,
     <<64262, <<83, 84>>>>, <<64275, <<1348, 1350>>>>, <<64276, <<1348, 1333>>>>, <<64277, <<1348, 1339>>>>,
     <<64278, <<1358, 1350>>>>, <<64279, <<1348, 1341>>>>
  >>

\* The run among UpperRuns[lo..hi] whose first and last code points enclose c;
\* 0 when there is none.  The runs are in ascending order and do not overlap.
RECURSIVE UpperRunOf(_, _, _)
UpperRunOf(c, lo, hi) ==
  IF lo > hi THEN 0
  ELSE IF c < UpperRuns[(lo + hi) \div 2][1] THEN UpperRunOf(c, lo, (lo + hi) \div 2 - 1)
  ELSE IF c > UpperRuns[(lo + hi) \div 2][2] THEN UpperRunOf(c, (lo + hi) \div 2 + 1, hi)
  ELSE (lo + hi) \div 2

\* The entry of c among UpperFull[lo..hi], which is in ascending order; 0 when
\* there is none.
RECURSIVE UpperFullOf(_, _, _)
UpperFullOf(c, lo, hi) ==
  IF lo > hi THEN 0
  ELSE IF c < UpperFull[(lo + hi) \div 2][1] THEN UpperFullOf(c, lo, (lo + hi) \div 2 - 1)
  ELSE IF c > UpperFull[(lo + hi) \div 2][1] THEN UpperFullOf(c, (lo + hi) \div 2 + 1, hi)
  ELSE (lo + hi) \div 2

\* Whether code point c is one the run maps.
InUpperRun(c, run) == c >= run[1] /\ c <= run[2] /\ (c - run[1]) % run[3] = 0

\* The upper case of c, given where the tables have it (0: not there).
UpperCharAt(c, run, full) ==
  IF run > 0 /\ InUpperRun(c, UpperRuns[run]) THEN <<c + UpperRuns[run][4]>>
  ELSE IF full > 0 THEN UpperFull[full][2]
  ELSE <<c>>

\* str.upper() of the one character c: the code points of its upper case.
UpperChar(c) ==
  UpperCharAt(c, UpperRunOf(c, 1, Len(UpperRuns)), UpperFullOf(c, 1, Len(UpperFull)))

\* A variant of Upper that leaves the str as it is (upper() forgotten).
Upper_Forgotten(s) == s

\* str.upper(): the upper cases of the characters, one after another.
RECURSIVE Upper(_)
Upper(s) == IF Len(s) = 0 THEN <<>> ELSE UpperChar(Head(s)) \o Upper(Tail(s))

\* ------------------------------------------------------------------ bounds

\* The most comments the pull request's thread holds.
MaxComments == 2

\* ------------------------------------------------------ program constants

EXECUTABLE == "gh"
CATALOGUE_REPO == <<"MCDReforged", "PluginCatalogue">>
body_file == "reply.md"

\* ------------------------------------------------------------- environment

\* The callers: Main is the workflow step; Other a second step run in the same
\* working directory at the same time.
Main == "main"
Other == "other"
Callers == {Main, Other}

\* The account the token (GH_TOKEN) belongs to, the author of what gh posts.
GhUser == "bot"
\* The pull request that exists; gh fails for any other number.
ExistingPr == "7"

Tuple2(a, b) == T(<<a, b>>)

\* The values a caller passes.
Bodies == {"a", "#b"}
PrNumbers == {S("7"), S("8"), None}
Users == {"bot", "al"}
Signs == {"#"}
\* How many Python frames are on the stack while check_contributor runs, its
\* own included: called from a script's top level, or deep in a recursion that
\* leaves json.loads room for 18 levels of nesting.
CallerDepths == {2, 978}
AddLabelArgs ==
  {None, L(<<>>), L(<<S("bug")>>), L(<<S("bug"), S("stale")>>), L(<<I(1)>>), T(<<S("stale")>>)}
RemoveLabelArgs == {None, L(<<>>), L(<<S("bug")>>), L(<<S("stale")>>), L(<<S("bug"), I(1)>>)}

\* The threads the pull request may start with.
InitialThreads ==
  { <<>>, <<[author |-> "al", body |-> Utf8Encode("#al")]>> }

\* ------------------------------------------------------------------- state

VARIABLES
  pc,        \* each caller's position: "idle" or a place in an operation
  frame,     \* each caller's current (or last) call: the operation, its arguments
  ret,       \* how each caller's last call ended: returned a value, or raised
  log,       \* what each caller's current call did: file and subprocess events
  pre,       \* the pull request and the body file as each call found them
  overlap,   \* whether another caller's call ran during each caller's call
  tool,      \* the comment tool each caller waits for: the body file as it read
             \* it, and how it fared ("running", then "ok" or "exit")
  file,      \* the body file reply.md of the working directory
  comments,  \* the pull request's comments, oldest first
  labels     \* the pull request's labels

vars == <<pc, frame, ret, log, pre, overlap, tool, file, comments, labels>>

NoFile == [exists |-> FALSE, data |-> <<>>]
FileOf(data) == [exists |-> TRUE, data |-> data]

NoTool == [read |-> NoFile, outcome |-> "none"]

NoRet == [kind |-> "none", v |-> None]
Returned(v) == [kind |-> "return", v |-> v]
Raised(e) == [kind |-> "raise", v |-> S(e)]

NoFrame ==
  [op |-> "none", body |-> "", edit_last |-> FALSE, pr_number |-> None, user |-> "",
   sign |-> "", add_labels |-> None, remove_labels |-> None, depth |-> 0]

\* A file event ("open", "write") or a subprocess.check_output call ("run"):
\* its argument list, how it ended ("ok", "exit": CalledProcessError, "oserror",
\* "typeerror"), its output, and the body file as the tool found it.
Event(ev, cmd, outcome, out, read) ==
  [ev |-> ev, cmd |-> cmd, outcome |-> outcome, out |-> out, read |-> read]

Init ==
  /\ pc = [p \in Callers |-> "idle"]
  /\ frame = [p \in Callers |-> NoFrame]
  /\ ret = [p \in Callers |-> NoRet]
  /\ log = [p \in Callers |-> <<>>]
  /\ pre = [p \in Callers |-> [comments |-> <<>>, labels |-> {}, file |-> NoFile]]
  /\ overlap = [p \in Callers |-> FALSE]
  /\ tool = [p \in Callers |-> NoTool]
  /\ file = NoFile
  /\ comments \in InitialThreads
  /\ labels = {}

\* ------------------------------------------------------------ the gh tool

\* Whether every element of the argument list is a str (else Popen raises
\* TypeError before any process is started).
ArgsUsable(cmd) == \A i \in 1..Len(cmd) : cmd[i].t = "str"

HasArg(cmd, a) == \E i \in 1..Len(cmd) : cmd[i] = S(a)

\* The index of the last comment of `who`, 0 when there is none.
LastBy(cs, who) ==
  IF \E i \in 1..Len(cs) : cs[i].author = who
  THEN CHOOSE i \in 1..Len(cs) :
         cs[i].author = who /\ \A j \in (i + 1)..Len(cs) : cs[j].author # who
  ELSE 0

\* gh pr comment <pr> --body-file <file> [--edit-last]: whether it can succeed.
GhCommentCan(cmd, cs, f) ==
  /\ cmd[4] = S(ExistingPr)
  /\ f.exists
  /\ IF HasArg(cmd, "--edit-last") THEN LastBy(cs, GhUser) > 0
     ELSE Len(cs) < MaxComments

\* ... and the thread after it succeeded: the last comment of the token's user
\* takes the file's content, or a new comment with it is added.
GhCommentDo(cmd, cs, f) ==
  IF HasArg(cmd, "--edit-last")
  THEN [cs EXCEPT ![LastBy(cs, GhUser)].body = f.data]
  ELSE Append(cs, [author |-> GhUser, body |-> f.data])

\* gh pr view <pr> --json comments --jq '.comments | any(...)': jq's answer.
GhQueryOutput(cs, user, sign) ==
  IF \E i \in 1..Len(cs) :
       cs[i].author = user /\ Contains(cs[i].body, Utf8Encode(sign))
  THEN Utf8Encode("true\n") ELSE Utf8Encode("false\n")

\* Output the tool is not meant to give, which the caller must still survive.
OddOutputs ==
  { <<>>, Utf8Encode("True\n"), Utf8Encode("trueish"), Utf8Encode("null\n"), <<255>>,
    Utf8Encode("true\n") \o <<195>> }

\* The labels of a comma-separated list, as gh splits it.
RECURSIVE SplitComma(_)
SplitComma(s) ==
  IF \E i \in 1..Len(s) : SubSeq(s, i, i) = ","
  THEN LET i == CHOOSE k \in 1..Len(s) :
                  SubSeq(s, k, k) = "," /\ \A j \in 1..(k - 1) : SubSeq(s, j, j) # ","
       IN  {SubSeq(s, 1, i - 1)} \cup SplitComma(SubSeq(s, i + 1, Len(s)))
  ELSE {s}

\* gh pr edit <pr> --add-label <list> | --remove-label <list>: the labels after.
GhEditDo(cmd, ls) ==
  IF cmd[5] = S("--add-label") THEN ls \cup SplitComma(cmd[6].v)
  ELSE ls \ SplitComma(cmd[6].v)

\* ------------------------------------------------------------- operations

\* ','.join(xs): ok and the str, or not ok (TypeError: an element is no str).
RECURSIVE JoinComma(_)
JoinComma(xs) ==
  IF Len(xs) = 0 THEN [ok |-> TRUE, v |-> ""]
  ELSE IF xs[1].t # "str" THEN [ok |-> FALSE, v |-> ""]
  ELSE LET rest == JoinComma(Tail(xs))
       IN  IF ~rest.ok THEN rest
           ELSE [ok |-> TRUE,
                 v |-> IF Len(xs) = 1 THEN xs[1].v ELSE xs[1].v \o "," \o rest.v]

\* ','.join(s) of a str: its characters, comma-separated.
RECURSIVE JoinChars(_)
JoinChars(s) ==
  IF Len(s) <= 1 THEN s
  ELSE SubSeq(s, 1, 1) \o "," \o JoinChars(SubSeq(s, 2, Len(s)))

\* ','.join(x) of any value: the elements of a list or a tuple, the characters
\* of a str, the keys of a dict (strs); a number or a bool is not iterable
\* (TypeError).
JoinLabels(x) ==
  CASE x.t = "list" -> JoinComma(x.v)
    [] x.t = "tuple" -> JoinComma(x.v)
    [] x.t = "str" -> [ok |-> TRUE, v |-> JoinChars(x.v)]
    [] x.t = "dict" -> JoinComma([i \in 1..Len(x.v) |-> S(x.v[i][1])])
    [] OTHER -> [ok |-> FALSE, v |-> ""]

\* f'{x}' of a str or of None.
Format(x) == IF x.t = "str" THEN x.v ELSE "None"

\* The argument list pr_comment builds.
CommentCmd(pr_number, edit_last) ==
  <<S(EXECUTABLE), S("pr"), S("comment"), pr_number, S("--body-file"), S(body_file)>>
  \o (IF edit_last THEN <<S("--edit-last")>> ELSE <<>>)

\* The argument list pr_update_or_comment builds.
QueryCmd(pr_number, user, sign) ==
  <<S(EXECUTABLE), S("pr"), S("view"), pr_number, S("--json"), S("comments"), S("--jq"),
    S(".comments | any(.author.login == \"" \o user
      \o "\" and (.body | contains(\"" \o sign \o "\")))")>>

\* A variant of LabelMode in which the labels to remove take precedence.
LabelMode_RemoveFirst(add_labels, remove_labels) ==
  IF Truthy(remove_labels) THEN "remove"
  ELSE IF Truthy(add_labels) THEN "add"
  ELSE "none"

\* Which labels pr_label passes: "add", "remove" or "none".
LabelMode(add_labels, remove_labels) ==
  IF Truthy(add_labels) THEN "add"
  ELSE IF Truthy(remove_labels) THEN "remove"
  ELSE "none"

\* The labels pr_label joins.
LabelList(add_labels, remove_labels) ==
  IF LabelMode(add_labels, remove_labels) = "add" THEN add_labels ELSE remove_labels

\* The argument list pr_label builds (its labels being joinable).
LabelCmd(pr_number, add_labels, remove_labels) ==
  <<S(EXECUTABLE), S("pr"), S("edit"), pr_number,
    S(IF LabelMode(add_labels, remove_labels) = "add" THEN "--add-label"
      ELSE "--remove-label"),
    S(JoinLabels(LabelList(add_labels, remove_labels)).v)>>

\* The GraphQL query of check_contributor: the lines of the template, stripped
\* and joined by spaces.
ContributorQuery(pr_number) ==
  " { repository(owner: \"" \o CATALOGUE_REPO[1] \o "\", name: \"" \o CATALOGUE_REPO[2]
  \o "\") { pullRequest(number: " \o Format(pr_number)
  \o ") { author { login } authorAssociation } } } "

ContributorCmd(pr_number) ==
  <<S("gh"), S("api"), S("graphql"), S("-F"), S("query=" \o ContributorQuery(pr_number))>>

\* obj[k1][k2]... for str keys: the value, or not ok at the first failure.
RECURSIVE GetPath(_, _)
GetPath(obj, keys) ==
  IF Len(keys) = 0 THEN [ok |-> TRUE, v |-> obj]
  ELSE IF ~GetItem(obj, keys[1]).ok THEN [ok |-> FALSE, v |-> None]
  ELSE GetPath(GetItem(obj, keys[1]).v, Tail(keys))

\* What check_contributor returns from its except clause.
ContributorFailure == Tuple2(None, B(FALSE))

\* A variant of ContributorOfFields whose failure keeps the login it already
\* looked up.
ContributorOfFields_KeepsLogin(login, assoc) ==
  IF login.ok /\ assoc.ok /\ assoc.v.t = "str"
  THEN Tuple2(login.v, B(Upper(assoc.v.v) = CodePoints("FIRST_TIME_CONTRIBUTOR")))
  ELSE Tuple2(IF login.ok THEN login.v ELSE None, B(FALSE))

\* check_contributor, given author.login and authorAssociation as looked up:
\* upper() of an association that is no str raises.
ContributorOfFields(login, assoc) ==
  IF login.ok /\ assoc.ok /\ assoc.v.t = "str"
  THEN Tuple2(login.v, B(Upper(assoc.v.v) = CodePoints("FIRST_TIME_CONTRIBUTOR")))
  ELSE ContributorFailure

\* check_contributor, given json.loads' result.
ContributorOfDoc(doc) ==
  IF ~doc.ok THEN ContributorFailure
  ELSE ContributorOfFields(
         GetPath(doc.v, <<"data", "repository", "pullRequest", "author", "login">>),
         GetPath(doc.v, <<"data", "repository", "pullRequest", "authorAssociation">>))

\* check_contributor, running `depth` frames deep, given the decoded output.
ContributorOfText(text, depth) ==
  IF ~text.ok THEN ContributorFailure
  ELSE ContributorOfDoc(JsonLoadsUnder(text.v, depth))

\* What check_contributor, running `depth` frames deep, makes of the tool's
\* output.
ContributorResult(out, depth) == ContributorOfText(Utf8Decode(out), depth)

Active(p) == pc[p] # "idle"

\* Caller p finishes its call.
Finish(p, r) ==
  /\ pc' = [pc EXCEPT ![p] = "idle"]
  /\ ret' = [ret EXCEPT ![p] = r]

Logged(p, e) == log' = [log EXCEPT ![p] = Append(@, e)]

\* Caller p calls an operation: the call finds the pull request and the body
\* file as they are.
Enter(p, f, at) ==
  /\ pc[p] = "idle"
  /\ frame' = [frame EXCEPT ![p] = f]
  /\ pc' = [pc EXCEPT ![p] = at]
  /\ ret' = [ret EXCEPT ![p] = NoRet]
  /\ log' = [log EXCEPT ![p] = <<>>]
  /\ pre' = [pre EXCEPT ![p] = [comments |-> comments, labels |-> labels, file |-> file]]
  /\ overlap' = [q \in Callers |->
                   IF q = p THEN \E o \in Callers \ {p} : Active(o)
                   ELSE overlap[q] \/ Active(q)]
  /\ UNCHANGED <<tool, file, comments, labels>>

CallPrComment(p) ==
  \E body \in Bodies, edit_last \in BOOLEAN, pr_number \in PrNumbers :
    Enter(p, [NoFrame EXCEPT !.op = "pr_comment", !.body = body,
                             !.edit_last = edit_last, !.pr_number = pr_number], "c_open")

CallPrUpdateOrComment(p) ==
  \E user \in Users, body \in Bodies, pr_number \in PrNumbers, sign \in Signs :
    Enter(p, [NoFrame EXCEPT !.op = "pr_update_or_comment", !.user = user, !.body = body,
                             !.pr_number = pr_number, !.sign = sign], "u_query")

CallPrLabel(p) ==
  \E add_labels \in AddLabelArgs, remove_labels \in RemoveLabelArgs, pr_number \in PrNumbers :
    Enter(p, [NoFrame EXCEPT !.op = "pr_label", !.add_labels = add_labels,
                             !.remove_labels = remove_labels, !.pr_number = pr_number],
          "l_run")

CallCheckContributor(p) ==
  \E pr_number \in PrNumbers, depth \in CallerDepths :
    Enter(p, [NoFrame EXCEPT !.op = "check_contributor", !.pr_number = pr_number,
                             !.depth = depth], "k_run")

\* A variant of PrCommentOpen that opens the file without emptying it ('r+').
PrCommentOpen_KeepsContent(p) ==
  /\ pc[p] = "c_open"
  /\ \/ /\ file' = FileOf(file.data)
        /\ Logged(p, Event("open", <<>>, "ok", <<>>, NoFile))
        /\ pc' = [pc EXCEPT ![p] = "c_write"]
        /\ UNCHANGED ret
     \/ /\ Logged(p, Event("open", <<>>, "oserror", <<>>, NoFile))
        /\ Finish(p, Returned(None))
        /\ UNCHANGED file
  /\ UNCHANGED <<frame, pre, overlap, tool, comments, labels>>

\* pr_comment, `with open(body_file, 'w')`: the file is created or emptied; or
\* open raises OSError, which is logged, and pr_comment returns.
PrCommentOpen(p) ==
  /\ pc[p] = "c_open"
  /\ \/ /\ file' = FileOf(<<>>)
        /\ Logged(p, Event("open", <<>>, "ok", <<>>, NoFile))
        /\ pc' = [pc EXCEPT ![p] = "c_write"]
        /\ UNCHANGED ret
     \/ /\ Logged(p, Event("open", <<>>, "oserror", <<>>, NoFile))
        /\ Finish(p, Returned(None))
        /\ UNCHANGED file
  /\ UNCHANGED <<frame, pre, overlap, tool, comments, labels>>

\* A variant of PrCommentWrite whose data is still buffered when the tool runs.
PrCommentWrite_Unflushed(p) ==
  /\ pc[p] = "c_write"
  /\ Logged(p, Event("write", <<>>, "ok", Utf8Encode(frame[p].body), NoFile))
  /\ pc' = [pc EXCEPT ![p] = "c_run"]
  /\ UNCHANGED <<frame, ret, pre, overlap, tool, file, comments, labels>>

\* pr_comment, f.write(body) and the end of the with block: the encoded body is
\* written from the start of the file that open left empty (over whatever the
\* file holds by then, had someone else written to it since).  Or the write or
\* the close raises OSError (a full disk, an I/O error) with the first k bytes
\* written: it is logged, and pr_comment returns without running the tool.
PrCommentWrite(p) ==
  LET data == Utf8Encode(frame[p].body)
  IN  /\ pc[p] = "c_write"
      /\ \/ /\ file' = FileOf(data \o SubSeq(file.data, Len(data) + 1, Len(file.data)))
            /\ Logged(p, Event("write", <<>>, "ok", data, NoFile))
            /\ pc' = [pc EXCEPT ![p] = "c_run"]
            /\ UNCHANGED ret
         \/ \E k \in 0..Len(data) :
              /\ file' = FileOf(SubSeq(data, 1, k) \o SubSeq(file.data, k + 1, Len(file.data)))
              /\ Logged(p, Event("write", <<>>, "oserror", data, NoFile))
              /\ Finish(p, Returned(None))
      /\ UNCHANGED <<frame, pre, overlap, tool, comments, labels>>

\* pr_comment, subprocess.check_output(cmd), its start: an argument that is no
\* str or a tool that cannot be started raises at once, which is logged, and
\* pr_comment returns None; else the tool starts and reads the body file, and
\* pr_comment waits for it to end.
PrCommentRun(p) ==
  LET cmd == CommentCmd(frame[p].pr_number, frame[p].edit_last)
  IN  /\ pc[p] = "c_run"
      /\ \/ /\ ~ArgsUsable(cmd)
            /\ Logged(p, Event("run", cmd, "typeerror", <<>>, NoFile))
            /\ Finish(p, Returned(None))
            /\ UNCHANGED tool
         \/ /\ ArgsUsable(cmd)
            /\ Logged(p, Event("run", cmd, "oserror", <<>>, NoFile))
            /\ Finish(p, Returned(None))
            /\ UNCHANGED tool
         \/ /\ ArgsUsable(cmd)
            /\ tool' = [tool EXCEPT ![p] = [read |-> file, outcome |-> "running"]]
            /\ pc' = [pc EXCEPT ![p] = "c_tool"]
            /\ UNCHANGED <<ret, log>>
      /\ UNCHANGED <<frame, pre, overlap, file, comments, labels>>

\* pr_comment, subprocess.check_output(cmd), the tool at work while pr_comment
\* waits: it posts what it read to the pull request as it is by now, or it
\* fails and posts nothing.  It has not exited yet, and pr_comment still waits.
GhComment(p) ==
  LET cmd == CommentCmd(frame[p].pr_number, frame[p].edit_last)
  IN  /\ pc[p] = "c_tool"
      /\ pc' = [pc EXCEPT ![p] = "c_wait"]
      /\ \/ /\ tool' = [tool EXCEPT ![p].outcome = "exit"]
            /\ UNCHANGED comments
         \/ /\ GhCommentCan(cmd, comments, tool[p].read)
            /\ tool' = [tool EXCEPT ![p].outcome = "ok"]
            /\ comments' = GhCommentDo(cmd, comments, tool[p].read)
      /\ UNCHANGED <<frame, ret, log, pre, overlap, file, labels>>

\* pr_comment, subprocess.check_output(cmd), its end, and the handlers: the tool
\* exits, zero or not; the outcome is logged and pr_comment returns None.
PrCommentWait(p) ==
  LET cmd == CommentCmd(frame[p].pr_number, frame[p].edit_last)
  IN  /\ pc[p] = "c_wait"
      /\ Logged(p, Event("run", cmd, tool[p].outcome, <<>>, tool[p].read))
      /\ Finish(p, Returned(None))
      /\ tool' = [tool EXCEPT ![p] = NoTool]
      /\ UNCHANGED <<frame, pre, overlap, file, comments, labels>>

\* A variant of QueryDecision that goes on to post a new comment after a failed
\* query.
QueryDecision_PostsOnFailure(outcome, out) ==
  IF outcome # "ok" THEN "new"
  ELSE IF ~Utf8Decode(out).ok THEN "return"
  ELSE IF StartsWith(Utf8Decode(out).v, CodePoints("true")) THEN "edit"
  ELSE "new"

\* What pr_update_or_comment does after its query: "edit" (pr_comment with
\* edit_last=True), "new" (pr_comment) or "return" (a failure, logged).
QueryDecision(outcome, out) ==
  IF outcome # "ok" THEN "return"
  ELSE IF ~Utf8Decode(out).ok THEN "return"
  ELSE IF StartsWith(Utf8Decode(out).v, CodePoints("true")) THEN "edit"
  ELSE "new"

\* pr_update_or_comment after a query that ended with `outcome` and `out`.
AfterQuery(p, cmd, outcome, out) ==
  /\ Logged(p, Event("run", cmd, outcome, out, NoFile))
  /\ IF QueryDecision(outcome, out) = "return"
     THEN /\ Finish(p, Returned(None))
          /\ UNCHANGED frame
     ELSE /\ frame' = [frame EXCEPT ![p].edit_last = (QueryDecision(outcome, out) = "edit")]
          /\ pc' = [pc EXCEPT ![p] = "c_open"]
          /\ UNCHANGED ret

\* pr_update_or_comment up to its call of pr_comment: the query, and what its
\* output decides.
PrUpdateQuery(p) ==
  LET f == frame[p]
      cmd == QueryCmd(f.pr_number, f.user, f.sign)
  IN  /\ pc[p] = "u_query"
      /\ IF ~ArgsUsable(cmd)
         THEN AfterQuery(p, cmd, "typeerror", <<>>)
         ELSE \/ AfterQuery(p, cmd, "oserror", <<>>)
              \/ AfterQuery(p, cmd, "exit", <<>>)
              \/ /\ cmd[4] = S(ExistingPr)
                 /\ \E out \in {GhQueryOutput(comments, f.user, f.sign)} \cup OddOutputs :
                      AfterQuery(p, cmd, "ok", out)
      /\ UNCHANGED <<pre, overlap, tool, file, comments, labels>>

\* pr_label: the argument list (joining labels that are not all str raises
\* TypeError to the caller), no call without labels, else one call of the tool
\* whose failure is logged.
PrLabel(p) ==
  LET f == frame[p]
      mode == LabelMode(f.add_labels, f.remove_labels)
      cmd == LabelCmd(f.pr_number, f.add_labels, f.remove_labels)
  IN  /\ pc[p] = "l_run"
      /\ IF mode = "none"
         THEN /\ Finish(p, Returned(None))
              /\ UNCHANGED <<log, labels>>
         ELSE IF ~JoinLabels(LabelList(f.add_labels, f.remove_labels)).ok
         THEN /\ Finish(p, Raised("TypeError"))
              /\ UNCHANGED <<log, labels>>
         ELSE /\ Finish(p, Returned(None))
              /\ IF ~ArgsUsable(cmd)
                 THEN /\ Logged(p, Event("run", cmd, "typeerror", <<>>, NoFile))
                      /\ UNCHANGED labels
                 ELSE \/ /\ Logged(p, Event("run", cmd, "oserror", <<>>, NoFile))
                         /\ UNCHANGED labels
                      \/ /\ Logged(p, Event("run", cmd, "exit", <<>>, NoFile))
                         /\ UNCHANGED labels
                      \/ /\ cmd[4] = S(ExistingPr)
                         /\ Logged(p, Event("run", cmd, "ok", <<>>, NoFile))
                         /\ labels' = GhEditDo(cmd, labels)
      /\ UNCHANGED <<frame, pre, overlap, tool, file, comments>>

\* The document the GraphQL endpoint answers with, given the JSON texts of the
\* login and of the association.
ContributorDoc(login, assoc) ==
  Utf8Encode("{\"data\":{\"repository\":{\"pullRequest\":{\"author\":{\"login\":" \o login
             \o "},\"authorAssociation\":" \o assoc \o "}}}}")

\* What `gh api graphql` may print on success.
ContributorOutputs ==
  { ContributorDoc("\"al\"", "\"FIRST_TIME_CONTRIBUTOR\""),
    ContributorDoc("\"al\"", "\"first_time_contributor\""),
    ContributorDoc("\"bo\"", "\"First_Time_Contributor\""),
    ContributorDoc("\"bo\"", "\"CONTRIBUTOR\""),
    ContributorDoc("\"al\"", "\"FIRST_TIME_CONTRIBUTORS\""),
    ContributorDoc("\"al\"", "\"NONE\""),
    ContributorDoc("\"al\"", "null"),
    ContributorDoc("\"al\"", "5"),
    ContributorDoc("null", "\"FIRST_TIME_CONTRIBUTOR\""),
    ContributorDoc("null", "\"MEMBER\""),
    ContributorDoc("7", "\"first_time_contributor\""),
    ContributorDoc("\"al\"", "\"f\\u0131rst_time_contributor\""),
    ContributorDoc("\"bo\"", "\"\\ufb01rst_time_contributor\""),
    ContributorDoc("\"al\"", "\"FIRST_TIME_CONTRIBUTOR\\u00df\""),
    ContributorDoc("\"al\"", "\"f\\u00eerst_time_contributor\""),
    Utf8Encode("{\"data\":{\"repository\":{\"pullRequest\":{\"author\":{\"login\":\"bo\"},\"authorAssociation\":\"FIR")
      \o <<197, 191>> \o Utf8Encode("T_TIME_CONTRIBUTOR\"}}}}"),
    ContributorDoc("\"al\"", "\"FIRST_TIME_CONTRIBUTOR\"") \o <<10>>,
    ContributorDoc("\"al\"", "\"FIRST_TIME_CONTRIBUTOR\"") \o <<255>>,
    ContributorDoc("\"al\"", "\"FIRST_TIME_CONTRIBUTOR\"") \o Utf8Encode("}"),
    Utf8Encode("{\"data\":{\"repository\":{\"pullRequest\":{\"author\":{\"login\":\"al\"}}}}}"),
    Utf8Encode("{\"data\":{\"repository\":{\"pullRequest\":{\"author\":{},\"authorAssociation\":\"FIRST_TIME_CONTRIBUTOR\"}}}}"),
    Utf8Encode("{\"data\":{\"repository\":{\"pullRequest\":{\"author\":null,\"authorAssociation\":\"FIRST_TIME_CONTRIBUTOR\"}}}}"),
    Utf8Encode("{\"data\":{\"repository\":{\"pullRequest\":{\"authorAssociation\":\"FIRST_TIME_CONTRIBUTOR\"}}}}"),
    Utf8Encode("{\"data\":{\"repository\":{\"pullRequest\":null}}}"),
    Utf8Encode("{\"data\":{\"repository\":null}}"),
    Utf8Encode("{\"data\":null}"),
    Utf8Encode("{\"message\":\"Bad credentials\"}"),
    Utf8Encode("{\"data\":{\"repository\":{\"pullRequest\":{\"author\":{\"login\":\"al\"},\"authorAssociation\":"),
    Utf8Encode("{\"data\":{\"repository\":{\"pullRequest\":{\"author\":{\"login\":\"al\"},\"authorAssociation\":\"FIRST_TIME_CONTRIBUTOR\"}}},\"extensions\":[[[[[[[[[[[[[[[[[[1]]]]]]]]]]]]]]]]]]}"),
    Utf8Encode("[]"),
    <<>> }

\* What check_contributor makes of each of these outputs at each depth.
ContributorResults ==
  [out \in ContributorOutputs |-> [depth \in CallerDepths |-> ContributorResult(out, depth)]]

\* check_contributor: one call of the tool; the login and whether the
\* association is that of a first-time contributor, or (None, False) on any
\* exception.
CheckContributor(p) ==
  LET cmd == ContributorCmd(frame[p].pr_number)
  IN  /\ pc[p] = "k_run"
      /\ \/ /\ Logged(p, Event("run", cmd, "oserror", <<>>, NoFile))
            /\ Finish(p, Returned(ContributorFailure))
         \/ /\ Logged(p, Event("run", cmd, "exit", <<>>, NoFile))
            /\ Finish(p, Returned(ContributorFailure))
         \/ \E out \in ContributorOutputs :
              /\ Logged(p, Event("run", cmd, "ok", out, NoFile))
              /\ Finish(p, Returned(ContributorResults[out][frame[p].depth]))
      /\ UNCHANGED <<frame, pre, overlap, tool, file, comments, labels>>

\* ---------------------------------------------------------- specifications

\* The workflow step: one caller, one call after another.
Next ==
  \/ CallPrComment(Main)
  \/ CallPrUpdateOrComment(Main)
  \/ CallPrLabel(Main)
  \/ CallCheckContributor(Main)
  \/ PrCommentOpen(Main)
  \/ PrCommentWrite(Main)
  \/ PrCommentRun(Main)
  \/ GhComment(Main)
  \/ PrCommentWait(Main)
  \/ PrUpdateQuery(Main)
  \/ PrLabel(Main)
  \/ CheckContributor(Main)

Spec == Init /\ [][Next]_vars

\* Two steps in one working directory, each commenting once, in any interleaving.
CallPrCommentOnce(p) == frame[p].op = "none" /\ CallPrComment(p)

NextConcurrent ==
  \E p \in Callers :
    \/ CallPrCommentOnce(p)
    \/ PrCommentOpen(p)
    \/ PrCommentWrite(p)
    \/ PrCommentRun(p)
    \/ GhComment(p)
    \/ PrCommentWait(p)

SpecConcurrent == Init /\ [][NextConcurrent]_vars

\* check_contributor alone, called again and again: it reads and changes nothing
\* but what the tool prints.
NextContributor ==
  \/ CallCheckContributor(Main)
  \/ CheckContributor(Main)

SpecContributor == Init /\ [][NextContributor]_vars

\* ------------------------------------------------------------------ claims

\* Caller p's call of `op` has ended.
Done(p, op) == pc[p] = "idle" /\ frame[p].op = op

IsQueryRun(e) == e.ev = "run" /\ e.cmd[3] = S("view")
IsCommentRun(e) == e.ev = "run" /\ e.cmd[3] = S("comment")

\* cmd carries `flag` directly followed by `value`.
Carries(cmd, flag, value) ==
  \E k \in 1..(Len(cmd) - 1) : cmd[k] = S(flag) /\ cmd[k + 1] = S(value)

\* The argument list of `gh pr edit` with one flag and its value.
EditArgs(pr_number, flag, value) ==
  <<S("gh"), S("pr"), S("edit"), pr_number, S(flag), S(value)>>

\* C1, as stated: with add_labels non-empty the invocation of pr_label carries
\* '--add-label' with the joined add_labels and neither '--remove-label' nor any
\* element of remove_labels; '--remove-label' with the joined remove_labels is
\* passed only when add_labels is empty or None and remove_labels is not.
C1_NoRemoveLabelElement ==
  \A p \in Callers : frame[p].op = "pr_label" =>
    \A i \in 1..Len(log[p]) :
      LET cmd == log[p][i].cmd
          add == frame[p].add_labels
          rem == frame[p].remove_labels
      IN  /\ Truthy(add) =>
               /\ Carries(cmd, "--add-label", JoinLabels(add).v)
               /\ ~HasArg(cmd, "--remove-label")
               /\ rem.t = "list" =>
                    \A k \in 1..Len(rem.v) : \A j \in 1..Len(cmd) : cmd[j] # rem.v[k]
          /\ HasArg(cmd, "--remove-label") =>
               /\ ~Truthy(add) /\ Truthy(rem)
               /\ Carries(cmd, "--remove-label", JoinLabels(rem).v)

\* C1, amended: with add_labels non-empty the one invocation of pr_label is
\* exactly gh pr edit <pr_number> --add-label <joined add_labels>, whatever
\* remove_labels holds (the argument list does not depend on it); its flag is
\* '--remove-label', followed by the joined remove_labels, only when add_labels
\* is empty or None and remove_labels is not.
C1_AddLabelsTakePrecedence ==
  \A p \in Callers : frame[p].op = "pr_label" =>
    /\ Len(log[p]) <= 1
    /\ \A i \in 1..Len(log[p]) :
         LET cmd == log[p][i].cmd
             add == frame[p].add_labels
             rem == frame[p].remove_labels
         IN  /\ Truthy(add) =>
                  cmd = EditArgs(frame[p].pr_number, "--add-label", JoinLabels(add).v)
             /\ cmd[5] = S("--remove-label") =>
                  /\ ~Truthy(add) /\ Truthy(rem)
                  /\ cmd = EditArgs(frame[p].pr_number, "--remove-label", JoinLabels(rem).v)

\* pr_label was given labels to add and labels to remove, and the tool ran.
C1_Witness ==
  /\ Done(Main, "pr_label")
  /\ Truthy(frame[Main].add_labels) /\ Truthy(frame[Main].remove_labels)
  /\ Len(log[Main]) = 1 /\ log[Main][1].outcome = "ok"
  /\ "bug" \in labels

\* C2, as stated: no call of pr_comment, pr_update_or_comment, pr_label or
\* check_contributor ends by raising to its caller.
C2_NeverRaises == \A p \in Callers : ret[p].kind # "raise"

\* Whether the code points s start with t, r, u, e.
BeginsTrue(s) == Len(s) >= 4 /\ s[1] = 116 /\ s[2] = 114 /\ s[3] = 117 /\ s[4] = 101

\* Caller p's pr_update_or_comment has gone on to pr_comment, with this
\* edit_last and with its own body and pr_number.
WentOnToComment(p, edit_last) ==
  /\ pc[p] = "c_open" \/ (Len(log[p]) >= 2 /\ log[p][2].ev = "open")
  /\ frame[p].edit_last = edit_last
  /\ \A i \in 2..Len(log[p]) :
       /\ log[p][i].ev = "write" => log[p][i].out = Utf8Encode(frame[p].body)
       /\ log[p][i].ev = "run" =>
            log[p][i].cmd =
              <<S("gh"), S("pr"), S("comment"), frame[p].pr_number, S("--body-file"),
                S("reply.md")>> \o (IF edit_last THEN <<S("--edit-last")>> ELSE <<>>)

\* The query of caller p's pr_update_or_comment has returned output.
QueryAnswered(p) ==
  /\ frame[p].op = "pr_update_or_comment" /\ pc[p] # "u_query"
  /\ Len(log[p]) >= 1 /\ log[p][1].outcome = "ok"

\* C3, as stated: whatever output the query of pr_update_or_comment returns,
\* pr_comment is called, with edit_last=True if and only if the output starts
\* with 'true', and with the same body and pr_number.
C3_AnyOutputComments ==
  \A p \in Callers : QueryAnswered(p) =>
    WentOnToComment(p, LET text == Utf8Decode(log[p][1].out)
                       IN  text.ok /\ BeginsTrue(text.v))

\* C3, amended: when the query's output decodes as UTF-8, pr_comment is called
\* with edit_last=True if and only if the decoded output starts with 'true',
\* with the same body and pr_number; when it does not decode, pr_comment is not
\* called.
C3_DecodedOutputDecides ==
  \A p \in Callers : QueryAnswered(p) =>
    IF Utf8Decode(log[p][1].out).ok
    THEN WentOnToComment(p, BeginsTrue(Utf8Decode(log[p][1].out).v))
    ELSE pc[p] = "idle" /\ Len(log[p]) = 1

\* A query answered 'trueish' led to an edit of the last comment.
C3_Witness ==
  /\ Done(Main, "pr_update_or_comment")
  /\ Len(log[Main]) = 4
  /\ log[Main][1].out = Utf8Encode("trueish")
  /\ log[Main][4].outcome = "ok"
  /\ HasArg(log[Main][4].cmd, "--edit-last")

\* C4: when pr_comment invokes the tool, the body file has been opened anew and
\* written and holds exactly the body of this call, and the argument list has
\* '--edit-last' if and only if edit_last is true.
C4_BodyWrittenBeforeRun ==
  \A p \in Callers :
    /\ pc[p] = "c_run" =>
         /\ file.exists
         /\ Utf8Decode(file.data) = [ok |-> TRUE, v |-> CodePoints(frame[p].body)]
    /\ \A i \in 1..Len(log[p]) : IsCommentRun(log[p][i]) =>
         /\ i >= 3
         /\ log[p][i - 2].ev = "open" /\ log[p][i - 2].outcome = "ok"
         /\ log[p][i - 1].ev = "write"
         /\ log[p][i].outcome \in {"ok", "exit"} =>
              /\ log[p][i].read.exists
              /\ Utf8Decode(log[p][i].read.data)
                   = [ok |-> TRUE, v |-> CodePoints(frame[p].body)]
         /\ HasArg(log[p][i].cmd, "--edit-last") <=> frame[p].edit_last

\* pr_comment edited the last comment with a body shorter than the one the
\* body file held from an earlier call.
C4_Witness ==
  /\ Done(Main, "pr_comment")
  /\ frame[Main].edit_last
  /\ pre[Main].file.exists
  /\ Len(pre[Main].file.data) > Len(Utf8Encode(frame[Main].body))
  /\ Len(log[Main]) = 3 /\ log[Main][3].outcome = "ok"
  /\ comments[Len(comments)].body = Utf8Encode(frame[Main].body)

\* The characters whose upper case is the letter x of FIRST_TIME_CONTRIBUTOR: x
\* itself, its small letter, the dotless i for I and the long s for S.
SameLetter(a, x) ==
  \/ a = x
  \/ x >= 65 /\ x <= 90 /\ a = x + 32
  \/ x = 73 /\ a = 305
  \/ x = 83 /\ a = 383

\* The characters whose upper case is the two letters x, y: the ligature fi for
\* FI, the ligatures long-s-t and st for ST.
SameLetters(a, x, y) ==
  \/ x = 70 /\ y = 73 /\ a = 64257
  \/ x = 83 /\ y = 84 /\ a \in {64261, 64262}

\* Whether s is t (capital letters and underscores) but for the case of its
\* characters: each character of s stands for the next one or two of t.
RECURSIVE EqualsIgnoringCase(_, _)
EqualsIgnoringCase(s, t) ==
  IF Len(s) = 0 THEN Len(t) = 0
  ELSE \/ /\ Len(t) >= 1
          /\ SameLetter(s[1], t[1])
          /\ EqualsIgnoringCase(Tail(s), Tail(t))
       \/ /\ Len(t) >= 2
          /\ SameLetters(s[1], t[1], t[2])
          /\ EqualsIgnoringCase(Tail(s), Tail(Tail(t)))

LoginPath == <<"data", "repository", "pullRequest", "author", "login">>
AssociationPath == <<"data", "repository", "pullRequest", "authorAssociation">>
AuthorPath == <<"data", "repository", "pullRequest", "author">>

\* What is known of a document that was not printed or does not parse.
NoDoc ==
  [ok |-> FALSE, login |-> [ok |-> FALSE, v |-> None],
   assoc |-> [ok |-> FALSE, v |-> None], author |-> [ok |-> FALSE, v |-> None]]

\* Whether a document parsed, and what stands at its paths.
FieldsOfDoc(doc) ==
  IF ~doc.ok THEN NoDoc
  ELSE [ok |-> TRUE, login |-> GetPath(doc.v, LoginPath),
        assoc |-> GetPath(doc.v, AssociationPath), author |-> GetPath(doc.v, AuthorPath)]

FieldsOfText(text, depth) ==
  IF ~text.ok THEN NoDoc ELSE FieldsOfDoc(JsonLoadsUnder(text.v, depth))

\* The document the tool of caller p's check_contributor printed, as json.loads
\* parsed it.
Printed(p) ==
  IF Done(p, "check_contributor") /\ log[p][1].outcome = "ok"
  THEN FieldsOfText(Utf8Decode(log[p][1].out), frame[p].depth)
  ELSE NoDoc

IsNull(field) == field.ok /\ field.v.t = "none"

\* Whether the association is a str equal to FIRST_TIME_CONTRIBUTOR but for case.
IsFirstTime(assoc) ==
  /\ assoc.v.t = "str"
  /\ EqualsIgnoringCase(assoc.v.v, CodePoints("FIRST_TIME_CONTRIBUTOR"))

\* C5 as stated, of the result r and the printed document d.
AnyAssociationValue(r, d) ==
  (d.ok /\ d.login.ok /\ d.assoc.ok /\ ~IsNull(d.assoc)) =>
    r = Returned(Tuple2(d.login.v, B(IsFirstTime(d.assoc))))

\* C5, as stated: for a parsed document with a login and an association of any
\* value, check_contributor returns (login, True) exactly when the association
\* equals FIRST_TIME_CONTRIBUTOR but for case, and (login, False) otherwise.
C5_AnyAssociationValue ==
  \A p \in Callers : Done(p, "check_contributor") => AnyAssociationValue(ret[p], Printed(p))

\* C5 as amended, of the result r and the printed document d.
StringAssociation(r, d) ==
  (d.ok /\ d.login.ok /\ d.assoc.ok) =>
    IF d.assoc.v.t = "str"
    THEN r = Returned(Tuple2(d.login.v, B(IsFirstTime(d.assoc))))
    ELSE r = Returned(Tuple2(None, B(FALSE)))

\* C5, amended: for a parsed document with a login and an association that is
\* a string, check_contributor returns (login, True) exactly when the
\* association's upper case is FIRST_TIME_CONTRIBUTOR (small letters, the
\* dotless i, the long s and the ligatures fi and st count as their capitals),
\* and (login, False) otherwise; an association that is no string gives
\* (None, False).
C5_StringAssociation ==
  \A p \in Callers : Done(p, "check_contributor") => StringAssociation(ret[p], Printed(p))

\* The witness of C5, of the result r and the printed document d.
DotlessWitness(r, d) ==
  /\ d.ok /\ d.assoc.ok
  /\ d.assoc.v = S(<<102, 305>> \o CodePoints("rst_time_contributor"))
  /\ r = Returned(Tuple2(S(CodePoints("al")), B(TRUE)))

\* An association in small letters, its i the dotless one, was found to be that
\* of a first-time contributor.
C5_Witness == DotlessWitness(ret[Main], Printed(Main))

\* Whether a field of the path to the login or to the association is missing.
FieldMissing(d) == ~d.login.ok \/ ~d.assoc.ok

\* C6 as stated, of the result r and the printed document d.
FailureOnMissingOrNull(r, d) ==
  (~d.ok \/ FieldMissing(d) \/ IsNull(d.login) \/ IsNull(d.assoc))
    => r = Returned(Tuple2(None, B(FALSE)))

\* C6, as stated: check_contributor returns (None, False) whenever the tool
\* fails, prints what is no JSON, or prints a document in which a field of the
\* path to author.login or to authorAssociation is missing or null.
C6_FailureOnMissingOrNull ==
  \A p \in Callers : Done(p, "check_contributor") => FailureOnMissingOrNull(ret[p], Printed(p))

\* C6 as amended, of the result r and the printed document d.
FailureOnMissingField(r, d) ==
  /\ (~d.ok \/ FieldMissing(d) \/ IsNull(d.assoc)) => r = Returned(Tuple2(None, B(FALSE)))
  /\ (d.ok /\ ~FieldMissing(d) /\ IsNull(d.login) /\ d.assoc.v.t = "str")
       => r = Returned(Tuple2(None, B(IsFirstTime(d.assoc))))

\* C6, amended: check_contributor returns (None, False) whenever the tool fails,
\* prints what is no JSON, or prints a document in which a field of the path is
\* missing or any of data, repository, pullRequest, author and
\* authorAssociation is null; a null login alone, in a parsed document, is
\* returned as the login, with the association's verdict: (None, True) for a
\* first-time contributor.
C6_FailureOnMissingField ==
  \A p \in Callers : Done(p, "check_contributor") => FailureOnMissingField(ret[p], Printed(p))

\* The witness of C6, of the result r and the printed document d.
NullAuthorWitness(r, d) ==
  /\ d.ok /\ IsNull(d.author)
  /\ d.assoc.ok /\ IsFirstTime(d.assoc)
  /\ r = Returned(Tuple2(None, B(FALSE)))

\* The document's author was null, and check_contributor returned (None, False).
C6_Witness == NullAuthorWitness(ret[Main], Printed(Main))

\* C7, as stated: pr_update_or_comment edits an existing comment only when the
\* last comment of `user` contains `sign`, and then that comment; in every
\* other history it adds a new comment and changes no existing one.  (For a
\* query answered as jq answers it and a comment command that succeeded.)
C7_EditsLastCommentOfUser ==
  \A p \in {Main} :
    (/\ Done(p, "pr_update_or_comment")
     /\ Len(log[p]) = 4
     /\ log[p][1].out = GhQueryOutput(pre[p].comments, frame[p].user, frame[p].sign)
     /\ log[p][4].outcome = "ok") =>
      LET cs == pre[p].comments
          k == LastBy(cs, frame[p].user)
          marked == k > 0 /\ Contains(cs[k].body, Utf8Encode(frame[p].sign))
      IN  /\ \A j \in 1..Len(cs) : comments[j] # cs[j] => marked /\ j = k
          /\ ~marked =>
               comments = Append(cs, [author |-> GhUser, body |-> Utf8Encode(frame[p].body)])

\* C8, as stated: with add_labels and remove_labels both empty or None pr_label
\* invokes nothing and the labels stay as they are; in every other case it
\* invokes the tool exactly once.
C8_OneInvocationUnlessEmpty ==
  \A p \in Callers : Done(p, "pr_label") =>
    IF ~Truthy(frame[p].add_labels) /\ ~Truthy(frame[p].remove_labels)
    THEN Len(log[p]) = 0 /\ labels = pre[p].labels
    ELSE Len(log[p]) = 1 /\ log[p][1].ev = "run"

\* C9: a pr_comment call during which no other call ran has the tool read its
\* own body; only calls that overlap can have the tool read something else.
C9_OwnBodyUnlessOverlap ==
  \A p \in Callers : \A i \in 1..Len(log[p]) :
    (/\ IsCommentRun(log[p][i])
     /\ log[p][i].outcome \in {"ok", "exit"}
     /\ ~overlap[p]) =>
      log[p][i].read = FileOf(Utf8Encode(frame[p].body))

\* Two overlapping calls with different bodies: the tool invoked for the one
\* read the body of the other and posted it.
C9_Witness ==
  \E p \in Callers : \E q \in Callers \ {p} :
    /\ overlap[p]
    /\ frame[p].body # frame[q].body
    /\ Len(log[p]) = 3
    /\ log[p][3].outcome = "ok"
    /\ log[p][3].read = FileOf(Utf8Encode(frame[q].body))
    /\ \E j \in 1..Len(comments) : comments[j].body = Utf8Encode(frame[q].body)

\* C10: pr_update_or_comment queries once, first; it opens or writes the body
\* file and runs the comment command, at most once and last, only after a
\* query that succeeded; after a failed query it has ended with the comments and
\* the body file as it found them.
C10_CommentOnlyAfterQuery ==
  \A p \in Callers : frame[p].op = "pr_update_or_comment" =>
    LET l == log[p]
    IN  /\ pc[p] = "u_query" =>
             Len(l) = 0 /\ file = pre[p].file /\ comments = pre[p].comments
        /\ Len(l) >= 1 => IsQueryRun(l[1])
        /\ \A i \in 2..Len(l) : ~IsQueryRun(l[i])
        /\ \A i \in 1..Len(l) : IsCommentRun(l[i]) => i = Len(l) /\ pc[p] = "idle"
        /\ Cardinality({i \in 1..Len(l) : l[i].ev = "run"}) <= 2
        /\ Len(l) >= 2 => l[1].outcome = "ok"
        /\ (Len(l) >= 1 /\ l[1].outcome # "ok") =>
             /\ pc[p] = "idle" /\ Len(l) = 1
             /\ file = pre[p].file /\ comments = pre[p].comments

\* The query failed although the body file and a comment existed: nothing else
\* was done.
C10_Witness ==
  /\ Done(Main, "pr_update_or_comment")
  /\ Len(log[Main]) = 1 /\ log[Main][1].outcome = "exit"
  /\ frame[Main].pr_number = S(ExistingPr)
  /\ pre[Main].file.exists /\ Len(pre[Main].comments) > 0

====
